---- MODULE Spec2Model ----
(***************************************************************************)
(* A model of tex2img: the LaTeX compiler clients (LatexCompiler,          *)
(* AsyncLatexCompiler) and the image converters (Latex2PNG,                *)
(* AsyncLatex2PNG).                                                        *)
(*                                                                         *)
(* A Python str is a sequence of one-character strings, a Python bytes     *)
(* value is a sequence of integers 0..255.  A dict is a record.            *)
(***************************************************************************)
EXTENDS Integers, Sequences, FiniteSets, TLC

(***************************************************************************)
(* Characters and text                                                     *)
(***************************************************************************)

\* The characters of a TLA+ string literal, as a Python str.
Chars(s) == [i \in 1..Len(s) |-> SubSeq(s, i, i)]

\* The printable ASCII characters, code points 32..126 in order.
\* (The grave accent, code point 96, cannot be written in a string literal.)
Ascii ==
    Chars(" !\"#$%&'()*+,-./0123456789:;<=>?@ABCDEFGHIJKLMNOPQRSTUVWXYZ[\\]^_")
    \o <<"U+0060">>
    \o Chars("abcdefghijklmnopqrstuvwxyz{|}~")

\* One character outside ASCII (U+7684, as in the document of test_latex2png).
CJK == "U+7684"

CodePoints ==
    [c \in {Ascii[k] : k \in 1..95} \cup {CJK, "\n", "\t"} |->
        IF c = CJK THEN 30340
        ELSE IF c = "\n" THEN 10
        ELSE IF c = "\t" THEN 9
        ELSE CHOOSE n \in 32..126 : Ascii[n - 31] = c]

Ord(c) == CodePoints[c]

IsChr(n) == n \in 32..126 \/ n \in {9, 10, 30340}

Chr(n) ==
    IF n = 30340 THEN CJK
    ELSE IF n = 10 THEN "\n"
    ELSE IF n = 9 THEN "\t"
    ELSE Ascii[n - 31]

\* str.encode / bytes.decode on ASCII text.
Encode(s) == [i \in 1..Len(s) |-> Ord(s[i])]

StartsWith(s, p) == Len(s) >= Len(p) /\ SubSeq(s, 1, Len(p)) = p

\* t occurs in s (Python's `t in s`).
Contains(s, t) ==
    \E i \in 1..(Len(s) - Len(t) + 1) : SubSeq(s, i, i + Len(t) - 1) = t

(***************************************************************************)
(* base64.b64encode(...).decode('utf-8')                                   *)
(***************************************************************************)

B64Alphabet ==
    Chars("ABCDEFGHIJKLMNOPQRSTUVWXYZabcdefghijklmnopqrstuvwxyz0123456789+/")

B64Char(n) == B64Alphabet[(n % 64) + 1]

RECURSIVE b64encode(_)
b64encode(b) ==
    IF Len(b) = 0 THEN <<>>
    ELSE IF Len(b) = 1 THEN
        LET n == b[1] * 65536
        IN  <<B64Char(n \div 262144), B64Char(n \div 4096), "=", "=">>
    ELSE IF Len(b) = 2 THEN
        LET n == b[1] * 65536 + b[2] * 256
        IN  <<B64Char(n \div 262144), B64Char(n \div 4096), B64Char(n \div 64), "=">>
    ELSE
        LET n == b[1] * 65536 + b[2] * 256 + b[3]
        IN  <<B64Char(n \div 262144), B64Char(n \div 4096), B64Char(n \div 64), B64Char(n)>>
            \o b64encode(SubSeq(b, 4, Len(b)))

(***************************************************************************)
(* json.dumps (ensure_ascii, separators ", " and ": ") of the payload, and *)
(* the JSON decoder that the service and response.json() apply.            *)
(***************************************************************************)

HexDigits == Chars("0123456789abcdef")

Hex4(n) ==
    <<HexDigits[((n \div 4096) % 16) + 1], HexDigits[((n \div 256) % 16) + 1],
      HexDigits[((n \div 16) % 16) + 1], HexDigits[(n % 16) + 1]>>

EscapeChar(c) ==
    IF c = "\"" THEN <<"\\", "\"">>
    ELSE IF c = "\\" THEN <<"\\", "\\">>
    ELSE IF c = "\n" THEN <<"\\", "n">>
    ELSE IF c = "\t" THEN <<"\\", "t">>
    ELSE IF Ord(c) < 32 \/ Ord(c) > 126 THEN <<"\\", "u">> \o Hex4(Ord(c))
    ELSE <<c>>

RECURSIVE EscapeAll(_)
EscapeAll(s) ==
    IF s = <<>> THEN <<>> ELSE EscapeChar(Head(s)) \o EscapeAll(Tail(s))

DumpStr(s) == <<"\"">> \o EscapeAll(s) \o <<"\"">>

\* The fixed text of the serialized payload.
TxtMain == Chars("{\"main\": true, \"content\": ")
TxtPath == Chars("{\"path\": ")
TxtUrl == Chars(", \"url\": ")
TxtContent == Chars(", \"content\": ")
TxtCompiler == Chars("{\"compiler\": ")
TxtResources == Chars(", \"resources\": [")
TxtSep == Chars(", ")
TxtEndObj == Chars("}")
TxtEnd == Chars("]}")

\* One dict of `resources`, its keys in insertion order.
DumpResource(r) ==
    IF "main" \in DOMAIN r THEN TxtMain \o DumpStr(r.content) \o TxtEndObj
    ELSE IF "url" \in DOMAIN r THEN
        TxtPath \o DumpStr(r.path) \o TxtUrl \o DumpStr(r.url) \o TxtEndObj
    ELSE
        TxtPath \o DumpStr(r.path) \o TxtContent \o DumpStr(r.content) \o TxtEndObj

RECURSIVE DumpList(_)
DumpList(rs) ==
    IF rs = <<>> THEN <<>>
    ELSE IF Len(rs) = 1 THEN DumpResource(rs[1])
    ELSE DumpResource(rs[1]) \o TxtSep \o DumpList(Tail(rs))

json_dumps(payload) ==
    TxtCompiler \o DumpStr(payload.compiler)
    \o TxtResources \o DumpList(payload.resources) \o TxtEnd

\* Decoded JSON values: [t |-> "str", s |-> text], [t |-> "lit", name |-> word],
\* [t |-> "arr", a |-> values], [t |-> "obj", m |-> <<[k |-> key, v |-> value], ...>>].
\* A parse step returns [ok, v, next]: the value and the position after it.
Fail == [ok |-> FALSE, v |-> [t |-> "none"], next |-> 0]

IsWs(c) == c \in {" ", "\n", "\t"}

RECURSIVE SkipWs(_, _)
SkipWs(s, i) == IF i <= Len(s) /\ IsWs(s[i]) THEN SkipWs(s, i + 1) ELSE i

HexVal(c) == CHOOSE n \in 0..15 : HexDigits[n + 1] = c

IsHex(c) == \E n \in 0..15 : HexDigits[n + 1] = c

\* The text of a string literal whose opening quote is before position i.
RECURSIVE ParseStr(_, _, _)
ParseStr(s, i, acc) ==
    IF i > Len(s) THEN Fail
    ELSE IF s[i] = "\"" THEN [ok |-> TRUE, v |-> [t |-> "str", s |-> acc], next |-> i + 1]
    ELSE IF s[i] = "\\" THEN
        IF i + 1 > Len(s) THEN Fail
        ELSE IF s[i + 1] \in {"\"", "\\", "/"} THEN ParseStr(s, i + 2, Append(acc, s[i + 1]))
        ELSE IF s[i + 1] = "n" THEN ParseStr(s, i + 2, Append(acc, "\n"))
        ELSE IF s[i + 1] = "t" THEN ParseStr(s, i + 2, Append(acc, "\t"))
        ELSE IF s[i + 1] = "u" THEN
            IF i + 5 > Len(s) \/ \E k \in 2..5 : ~IsHex(s[i + k]) THEN Fail
            ELSE LET n == HexVal(s[i + 2]) * 4096 + HexVal(s[i + 3]) * 256
                          + HexVal(s[i + 4]) * 16 + HexVal(s[i + 5])
                 IN  IF IsChr(n) THEN ParseStr(s, i + 6, Append(acc, Chr(n))) ELSE Fail
        ELSE Fail
    ELSE IF s[i] \in {"\n", "\t"} THEN Fail
    ELSE ParseStr(s, i + 1, Append(acc, s[i]))

Lit(s, i, word) ==
    IF i + Len(word) - 1 <= Len(s) /\ SubSeq(s, i, i + Len(word) - 1) = Chars(word)
    THEN [ok |-> TRUE, v |-> [t |-> "lit", name |-> word], next |-> i + Len(word)]
    ELSE Fail

RECURSIVE ParseValue(_, _)
RECURSIVE ParseElems(_, _, _)
RECURSIVE ParseMembers(_, _, _)

\* The elements of an array after "[" or ",": i is at the next element.
ParseElems(s, i, acc) ==
    LET e == ParseValue(s, i)
        j == SkipWs(s, e.next)
    IN  IF ~e.ok \/ j > Len(s) THEN Fail
        ELSE IF s[j] = "," THEN ParseElems(s, j + 1, Append(acc, e.v))
        ELSE IF s[j] = "]"
            THEN [ok |-> TRUE, v |-> [t |-> "arr", a |-> Append(acc, e.v)], next |-> j + 1]
        ELSE Fail

\* The members of an object after "{" or ",": i is at the next key.
ParseMembers(s, i, acc) ==
    LET j == SkipWs(s, i)
    IN  IF j > Len(s) \/ s[j] # "\"" THEN Fail
        ELSE
            LET key == ParseStr(s, j + 1, <<>>)
                c == SkipWs(s, key.next)
            IN  IF ~key.ok \/ c > Len(s) \/ s[c] # ":" THEN Fail
                ELSE
                    LET val == ParseValue(s, c + 1)
                        d == SkipWs(s, val.next)
                        m == Append(acc, [k |-> key.v.s, v |-> val.v])
                    IN  IF ~val.ok \/ d > Len(s) THEN Fail
                        ELSE IF s[d] = "," THEN ParseMembers(s, d + 1, m)
                        ELSE IF s[d] = "}"
                            THEN [ok |-> TRUE, v |-> [t |-> "obj", m |-> m], next |-> d + 1]
                        ELSE Fail

ParseValue(s, i0) ==
    LET i == SkipWs(s, i0)
    IN  IF i > Len(s) THEN Fail
        ELSE IF s[i] = "\"" THEN ParseStr(s, i + 1, <<>>)
        ELSE IF s[i] = "{" THEN
            LET j == SkipWs(s, i + 1)
            IN  IF j <= Len(s) /\ s[j] = "}"
                THEN [ok |-> TRUE, v |-> [t |-> "obj", m |-> <<>>], next |-> j + 1]
                ELSE ParseMembers(s, j, <<>>)
        ELSE IF s[i] = "[" THEN
            LET j == SkipWs(s, i + 1)
            IN  IF j <= Len(s) /\ s[j] = "]"
                THEN [ok |-> TRUE, v |-> [t |-> "arr", a |-> <<>>], next |-> j + 1]
                ELSE ParseElems(s, j, <<>>)
        ELSE IF s[i] = "t" THEN Lit(s, i, "true")
        ELSE IF s[i] = "f" THEN Lit(s, i, "false")
        ELSE IF s[i] = "n" THEN Lit(s, i, "null")
        ELSE Fail

\* json.loads: one value and nothing but white space after it.
json_loads(s) ==
    LET r == ParseValue(s, 1)
    IN  IF r.ok /\ SkipWs(s, r.next) = Len(s) + 1 THEN r ELSE Fail

\* Lookups in a decoded object.
HasKey(o, key) == o.t = "obj" /\ \E i \in 1..Len(o.m) : o.m[i].k = Chars(key)

\* dict[key]: a repeated key keeps its last value.
GetKey(o, key) ==
    o.m[CHOOSE i \in 1..Len(o.m) :
            /\ o.m[i].k = Chars(key)
            /\ \A j \in (i + 1)..Len(o.m) : o.m[j].k # Chars(key)].v

Keys(o) == {o.m[i].k : i \in 1..Len(o.m)}

(***************************************************************************)
(* The environment: files, inputs, responses                               *)
(***************************************************************************)

\* Bounds of the model.
MaxImages == 2
MaxPosts == 2

\* The local files (os.path.isfile, open(..., 'rb').read()).
\* Three files exist: img.png, httpd.png, and b in the directory https:/x
\* (the relative path "https://x/b").
ImgPng == Chars("img.png")
HttpdPng == Chars("httpd.png")
HttpsB == Chars("https://x/b")

FileNames == {ImgPng, HttpdPng, HttpsB}

FileBytes(name) ==
    IF name = ImgPng THEN <<65, 66, 67, 255>>
    ELSE IF name = HttpdPng THEN <<104, 105>>
    ELSE <<0>>

isfile(name) == name \in FileNames

\* Values of the environment variable LATEX_COMPILER_API_URL ('' when unset).
EnvValues == {<<>>, Chars("http://env/builds")}

\* Values of the api_url argument ('' by default).
ArgValues == {<<>>, Chars("http://arg/builds")}

Docs == {<<"\\", "a">>, <<"\"", CJK, "\n">>}

Engines == {Chars("lualatex"), Chars("pdflatex")}

\* (path, content) pairs: two URLs, a local file, inline base64 text, and a
\* local file and base64 text whose first four characters are "http".
ImagePairs ==
    { <<Chars("a.png"), Chars("http://x/a.png")>>,
      <<Chars("a.png"), HttpsB>>,
      <<Chars("c.png"), ImgPng>>,
      <<Chars("d.png"), Chars("QUJD")>>,
      <<Chars("e.png"), HttpdPng>>,
      <<Chars("f.png"), Chars("httpQUJD")>> }

RECURSIVE SeqsUpTo(_, _)
SeqsUpTo(S, n) ==
    IF n = 0 THEN {<<>>}
    ELSE LET shorter == SeqsUpTo(S, n - 1)
         IN  shorter \cup {Append(q, x) : q \in shorter, x \in S}

\* The images argument; None and [] are both the empty sequence.
ImageLists == SeqsUpTo(ImagePairs, MaxImages)

\* A few whole argument lists, for the runs that vary the answers and the
\* order of operations rather than the request.
CallArgs ==
    { [doc |-> <<"\\", "a">>, images |-> <<>>, engine |-> Chars("lualatex")],
      [doc |-> <<"\"", CJK, "\n">>,
       images |-> << <<Chars("a.png"), HttpsB>>, <<Chars("c.png"), ImgPng>> >>,
       engine |-> Chars("pdflatex")],
      [doc |-> <<"\\", "a">>, images |-> << <<Chars("e.png"), HttpdPng>> >>,
       engine |-> Chars("lualatex")] }

\* A toy PDF: the signature "%PDF", then one byte per page.
PdfMagic == <<37, 80, 68, 70>>

Pdf(pages) == PdfMagic \o pages

JsonCT == "application/json"

\* What the service may answer.
Responses ==
    { [status |-> 200, ctype |-> "application/pdf", body |-> Pdf(<<>>)],
      [status |-> 200, ctype |-> "application/pdf", body |-> Pdf(<<7>>)],
      [status |-> 201, ctype |-> "application/pdf", body |-> Pdf(<<7, 9>>)],
      [status |-> 200, ctype |-> "text/html", body |-> Encode(Chars("<html>"))],
      [status |-> 400, ctype |-> JsonCT, body |-> Encode(Chars("{\"logs\": \"boom\"}"))],
      [status |-> 500, ctype |-> "text/plain", body |-> Encode(Chars("{\"logs\": \"bo\\\\om\"}"))],
      [status |-> 404, ctype |-> JsonCT, body |-> Encode(Chars("{\"error\": \"gone\"}"))],
      [status |-> 502, ctype |-> "text/html", body |-> Encode(Chars("<html>"))],
      [status |-> 204, ctype |-> JsonCT, body |-> <<>>] }

\* No response at all: connection refused, timeout.
NoResponse == [status |-> 0, ctype |-> "", body |-> <<>>]

Arrivals == Responses \cup {NoResponse}

(***************************************************************************)
(* State                                                                   *)
(***************************************************************************)

VARIABLES
    environ,    \* os.environ['LATEX_COMPILER_API_URL']
    url_arg,    \* the api_url argument the client was constructed with
    client,     \* the client instance: state, kind, api_url, session
    sessions,   \* every HTTP session created, in creation order
    posts,      \* number of POSTs issued
    wire,       \* the last request posted
    call,       \* the acompile call suspended on the network, if any
    scope,      \* the async with scope: "out", "in", "exited"
    args,       \* the arguments of the last compile/acompile call
    resp,       \* the last response received
    reads,      \* the files read by the last compile/acompile call
    result,     \* the outcome of the last operation
    op          \* the last operation

vars == <<environ, url_arg, client, sessions, posts, wire, call, scope, args, resp, reads, result, op>>

SyncKinds == {"LatexCompiler", "Latex2PNG"}
AsyncKinds == {"AsyncLatexCompiler", "AsyncLatex2PNG"}
ImageKinds == {"Latex2PNG", "AsyncLatex2PNG"}
Kinds == SyncKinds \cup AsyncKinds

NoClient == [state |-> "none", kind |-> "", api_url |-> <<>>, session |-> 0]
NoWire == [session |-> 0, url |-> <<>>, data |-> <<>>, content_type |-> "", timeout |-> 0]
NoArgs == [doc |-> <<>>, images |-> <<>>, engine |-> <<>>]
NoResult == [kind |-> "none", exc |-> "", msg |-> <<>>, value |-> <<>>]
Idle == [pc |-> "idle"]

Return(v) == [kind |-> "return", exc |-> "", msg |-> <<>>, value |-> v]
Raise(e, m) == [kind |-> "raise", exc |-> e, msg |-> m, value |-> <<>>]

Init ==
    /\ environ \in EnvValues
    /\ url_arg = <<>>
    /\ client = NoClient
    /\ sessions = <<>>
    /\ posts = 0
    /\ wire = NoWire
    /\ call = Idle
    /\ scope = "out"
    /\ args = NoArgs
    /\ resp = NoResponse
    /\ reads = {}
    /\ result = NoResult
    /\ op = "start"

(***************************************************************************)
(* Construction                                                            *)
(***************************************************************************)

NewSession(lib) == [lib |-> lib, closed |-> FALSE, closes |-> 0]

\* (variant: the environment variable wins over the argument)
ResolveUrlEnvFirst(arg, env) == IF env # <<>> THEN env ELSE arg

\* api_url after `if not api_url: api_url = os.getenv(..., '')`.
ResolveUrl(arg, env) == IF arg # <<>> THEN arg ELSE env

EmptyUrlMessage == Chars("API_URL cannot be empty.")

\* LatexCompiler.__init__ on the sessions created so far: the session is
\* created first, then the endpoint is resolved and checked.
LatexCompilerInit(kind, arg, env, ss) ==
    LET created == Append(ss, NewSession("requests"))
        url == ResolveUrl(arg, env)
    IN  IF url = <<>>
        THEN [sessions |-> created,
              client |-> [state |-> "failed", kind |-> kind, api_url |-> <<>>, session |-> 0],
              result |-> Raise("ValueError", EmptyUrlMessage)]
        ELSE [sessions |-> created,
              client |-> [state |-> "ready", kind |-> kind, api_url |-> url,
                          session |-> Len(created)],
              result |-> Return(<<>>)]

\* AsyncLatexCompiler.__init__: super().__init__, then self.session is
\* replaced by a new aiohttp.ClientSession.
AsyncLatexCompilerInit(kind, arg, env, ss) ==
    LET base == LatexCompilerInit(kind, arg, env, ss)
        created == Append(base.sessions, NewSession("aiohttp"))
    IN  IF base.client.state = "failed" THEN base
        ELSE [sessions |-> created,
              client |-> [base.client EXCEPT !.session = Len(created)],
              result |-> base.result]

Construct(kind, arg) ==
    /\ client.state = "none"
    /\ LET made == IF kind \in AsyncKinds
                   THEN AsyncLatexCompilerInit(kind, arg, environ, sessions)
                   ELSE LatexCompilerInit(kind, arg, environ, sessions)
       IN  /\ sessions' = made.sessions
           /\ client' = made.client
           /\ result' = made.result
    /\ url_arg' = arg
    /\ op' = "init"
    /\ UNCHANGED <<environ, posts, wire, call, scope, args, resp, reads>>

(***************************************************************************)
(* Building the request                                                    *)
(***************************************************************************)

HttpPrefix == Chars("http")

\* (variant: only the https scheme is taken for a URL)
IsUrlHttpsOnly(content) == StartsWith(content, HttpPrefix \o <<"s">>)

IsUrl(content) == StartsWith(content, HttpPrefix)

\* The record appended to `resources` for one (path, content) pair.
ImageResource(path, content) ==
    IF IsUrl(content) THEN [path |-> path, url |-> content]
    ELSE IF isfile(content) THEN [path |-> path, content |-> b64encode(FileBytes(content))]
    ELSE [path |-> path, content |-> content]

\* The files opened while building the request.
FilesRead(images) ==
    {images[i][2] : i \in {k \in 1..Len(images) :
                             ~IsUrl(images[k][2]) /\ isfile(images[k][2])}}

MainDoc(latex_code) == [main |-> TRUE, content |-> latex_code]

\* (variant: the main document is appended after the images)
ResourcesMainLast(latex_code, images) ==
    [i \in 1..Len(images) |-> ImageResource(images[i][1], images[i][2])]
    \o <<MainDoc(latex_code)>>

Resources(latex_code, images) ==
    <<MainDoc(latex_code)>>
    \o [i \in 1..Len(images) |-> ImageResource(images[i][1], images[i][2])]

Payload(latex_code, images, compiler) ==
    [compiler |-> compiler, resources |-> Resources(latex_code, images)]

Timeout == 60

\* session.post(self.api_url, data=json.dumps(payload), headers=..., timeout=60)
Request(c, payload) ==
    [session |-> c.session, url |-> c.api_url, data |-> json_dumps(payload),
     content_type |-> JsonCT, timeout |-> Timeout]

(***************************************************************************)
(* Interpreting the response                                               *)
(***************************************************************************)

\* (variant: 201 is not taken for a success)
IsSuccessOnly200(status) == status = 200

IsSuccess(status) == status \in {200, 201}

Decode(b) == [i \in 1..Len(b) |-> Chr(b[i])]

Decodable(b) == \A i \in 1..Len(b) : b[i] <= 126 /\ IsChr(b[i])

\* response.json(): requests decodes and parses the body; aiohttp first
\* checks the content type and gives None for an empty body.
ResponseJson(lib, r) ==
    IF lib = "aiohttp" /\ r.ctype # JsonCT
        THEN [ok |-> FALSE, exc |-> "ContentTypeError", v |-> [t |-> "none"]]
    ELSE IF lib = "aiohttp" /\ r.body = <<>>
        THEN [ok |-> TRUE, exc |-> "", v |-> [t |-> "lit", name |-> "null"]]
    ELSE IF ~Decodable(r.body)
        THEN [ok |-> FALSE, exc |-> "UnicodeDecodeError", v |-> [t |-> "none"]]
    ELSE LET j == json_loads(Decode(r.body))
         IN  IF j.ok THEN [ok |-> TRUE, exc |-> "", v |-> j.v]
             ELSE [ok |-> FALSE, exc |-> "JSONDecodeError", v |-> [t |-> "none"]]

\* str(value) inside the f-string, for the values the modelled bodies hold.
PyNone == Chars("None")
PyTrue == Chars("True")
PyFalse == Chars("False")
PyRepr == Chars("<repr>")

PyStr(v) ==
    IF v.t = "str" THEN v.s
    ELSE IF v.t = "lit" THEN
        (IF v.name = "null" THEN PyNone ELSE IF v.name = "true" THEN PyTrue ELSE PyFalse)
    ELSE PyRepr

ErrorPrefix == Chars("Compilation failed with error logs: ")

\* The exception class of the package: it carries the text it is given as
\* its message and nothing else.
CompilationError(text) == Raise("CompilationError", text)

\* (variant: the key 'log' is read instead of 'logs')
ErrorOutcomeWrongKey(lib, r) ==
    LET j == ResponseJson(lib, r)
    IN  IF ~j.ok THEN Raise(j.exc, <<>>)
        ELSE IF j.v.t # "obj" THEN Raise("TypeError", <<>>)
        ELSE IF ~HasKey(j.v, "log") THEN Raise("KeyError", <<>>)
        ELSE CompilationError(ErrorPrefix \o PyStr(GetKey(j.v, "log")))

\* The else branch: response.json()['logs'], then raise CompilationError.
ErrorOutcome(lib, r) ==
    LET j == ResponseJson(lib, r)
    IN  IF ~j.ok THEN Raise(j.exc, <<>>)
        ELSE IF j.v.t # "obj" THEN Raise("TypeError", <<>>)
        ELSE IF ~HasKey(j.v, "logs") THEN Raise("KeyError", <<>>)
        ELSE CompilationError(ErrorPrefix \o PyStr(GetKey(j.v, "logs")))

\* What compile/acompile of the compiler client gives for an answer r.
Outcome(lib, r) ==
    IF r = NoResponse
        THEN Raise(IF lib = "requests" THEN "ConnectionError" ELSE "ClientConnectorError", <<>>)
    ELSE IF IsSuccess(r.status) THEN Return(r.body)
    ELSE ErrorOutcome(lib, r)

(***************************************************************************)
(* Rasterization                                                           *)
(***************************************************************************)

PngSignature == <<137, 80, 78, 71, 13, 10, 26, 10>>

\* pdf2image.convert_from_bytes: the pages of the PDF in page order.
convert_from_bytes(pdf) ==
    IF StartsWith(pdf, PdfMagic)
    THEN [ok |-> TRUE, images |-> SubSeq(pdf, Len(PdfMagic) + 1, Len(pdf))]
    ELSE [ok |-> FALSE, images |-> <<>>]

\* i.save(png_bytes, 'PNG'); png_bytes.getvalue()
SavePng(image) == PngSignature \o <<image>>

\* (variant: only the first page is converted)
PngResultsFirstPage(pdf) ==
    LET pages == convert_from_bytes(pdf).images
    IN  IF pages = <<>> THEN <<>> ELSE <<SavePng(pages[1])>>

\* The loop of Latex2PNG.compile / AsyncLatex2PNG.acompile.
PngResults(pdf) ==
    LET pages == convert_from_bytes(pdf).images
    IN  [i \in 1..Len(pages) |-> SavePng(pages[i])]

\* The image converter's result from the compiler client's outcome.
ToPng(out) ==
    IF out.kind # "return" THEN out
    ELSE IF ~convert_from_bytes(out.value).ok THEN Raise("PDFPageCountError", <<>>)
    ELSE Return(PngResults(out.value))

(***************************************************************************)
(* Operations                                                              *)
(***************************************************************************)

\* LatexCompiler.compile and Latex2PNG.compile, the service answering r.
Compile(latex_code, images, compiler, r) ==
    /\ client.state = "ready"
    /\ client.kind \in SyncKinds
    /\ posts < MaxPosts
    /\ wire' = Request(client, Payload(latex_code, images, compiler))
    /\ posts' = posts + 1
    /\ reads' = FilesRead(images)
    /\ result' = IF client.kind \in ImageKinds
                 THEN ToPng(Outcome("requests", r))
                 ELSE Outcome("requests", r)
    /\ args' = [doc |-> latex_code, images |-> images, engine |-> compiler]
    /\ resp' = r
    /\ op' = "compile"
    /\ UNCHANGED <<environ, url_arg, client, sessions, call, scope>>

MisuseMessage == Chars("Use acompile instead.")

\* (variant: compile is not overridden, the inherited method posts through
\* the aiohttp session and fails on the coroutine it gets back)
AsyncCompileInherited(latex_code, images, compiler) ==
    /\ client.state = "ready"
    /\ client.kind \in AsyncKinds
    /\ posts < MaxPosts
    /\ wire' = Request(client, Payload(latex_code, images, compiler))
    /\ posts' = posts + 1
    /\ reads' = FilesRead(images)
    /\ result' = Raise("AttributeError", <<>>)
    /\ args' = [doc |-> latex_code, images |-> images, engine |-> compiler]
    /\ op' = "misuse"
    /\ UNCHANGED <<environ, url_arg, client, sessions, call, scope, resp>>

\* AsyncLatexCompiler.compile and AsyncLatex2PNG.compile.
AsyncCompile(latex_code, images, compiler) ==
    /\ client.state = "ready"
    /\ client.kind \in AsyncKinds
    /\ result' = Raise("NotImplementedError", MisuseMessage)
    /\ args' = [doc |-> latex_code, images |-> images, engine |-> compiler]
    /\ op' = "misuse"
    /\ UNCHANGED <<environ, url_arg, client, sessions, posts, wire, call, scope, resp, reads>>

ClosedMessage == Chars("Session is closed")

\* acompile up to the await of session.post: the request is built and sent,
\* or the closed session refuses it.
AcompileStart(latex_code, images, compiler) ==
    /\ client.state = "ready"
    /\ client.kind \in AsyncKinds
    /\ call.pc = "idle"
    /\ reads' = FilesRead(images)
    /\ args' = [doc |-> latex_code, images |-> images, engine |-> compiler]
    /\ op' = "acompile"
    /\ IF sessions[client.session].closed
       THEN /\ result' = Raise("RuntimeError", ClosedMessage)
            /\ UNCHANGED <<wire, posts, call>>
       ELSE /\ posts < MaxPosts
            /\ wire' = Request(client, Payload(latex_code, images, compiler))
            /\ posts' = posts + 1
            /\ call' = [pc |-> "awaiting"]
            /\ result' = NoResult
    /\ resp' = NoResponse
    /\ UNCHANGED <<environ, url_arg, client, sessions, scope>>

\* acompile resumed with the service's answer r.
AcompileResume(r) ==
    /\ call.pc = "awaiting"
    /\ result' = IF client.kind \in ImageKinds
                 THEN ToPng(Outcome("aiohttp", r))
                 ELSE Outcome("aiohttp", r)
    /\ resp' = r
    /\ call' = Idle
    /\ op' = "acompile"
    /\ UNCHANGED <<environ, url_arg, client, sessions, posts, wire, scope, args, reads>>

\* The task awaiting the answer is cancelled.
Cancel ==
    /\ call.pc = "awaiting"
    /\ result' = Raise("CancelledError", <<>>)
    /\ call' = Idle
    /\ op' = "cancel"
    /\ UNCHANGED <<environ, url_arg, client, sessions, posts, wire, scope, args, resp, reads>>

\* __aenter__
AEnter ==
    /\ client.state = "ready"
    /\ client.kind \in AsyncKinds
    /\ scope = "out"
    /\ call.pc = "idle"
    /\ scope' = "in"
    /\ op' = "aenter"
    /\ UNCHANGED <<environ, url_arg, client, sessions, posts, wire, call, args, resp, reads, result>>

\* (variant: __aexit__ leaves the session as it is)
CloseSessionSkipped(ss, i) == ss

\* aiohttp's ClientSession.close()
CloseSession(ss, i) ==
    [ss EXCEPT ![i] = [@ EXCEPT !.closed = TRUE, !.closes = @ + 1]]

\* __aexit__, on whatever the scope body ended with.
AExit ==
    /\ scope = "in"
    /\ call.pc = "idle"
    /\ sessions' = CloseSession(sessions, client.session)
    /\ scope' = "exited"
    /\ op' = "aexit"
    /\ UNCHANGED <<environ, url_arg, client, posts, wire, call, args, resp, reads, result>>

\* Every operation in every order, on a few argument lists and every answer.
Next ==
    \/ \E kind \in Kinds, arg \in ArgValues : Construct(kind, arg)
    \/ \E a \in CallArgs, r \in Arrivals : Compile(a.doc, a.images, a.engine, r)
    \/ \E a \in CallArgs : AsyncCompile(a.doc, a.images, a.engine)
    \/ \E a \in CallArgs : AcompileStart(a.doc, a.images, a.engine)
    \/ \E r \in Arrivals : AcompileResume(r)
    \/ Cancel
    \/ AEnter
    \/ AExit

Spec == Init /\ [][Next]_vars

\* The first call of a client on every document, image list and engine.
\* (A call keeps nothing of the calls before it but the session.)
NextRequests ==
    \/ \E kind \in Kinds, arg \in ArgValues : Construct(kind, arg)
    \/ /\ posts = 0
       /\ \E d \in Docs, im \in ImageLists, e \in Engines, r \in Arrivals :
              r.status = 201 /\ Compile(d, im, e, r)
    \/ /\ posts = 0
       /\ \E d \in Docs, im \in ImageLists, e \in Engines : AcompileStart(d, im, e)
    \/ \E r \in Arrivals : r.status = 201 /\ AcompileResume(r)

SpecRequests == Init /\ [][NextRequests]_vars

(***************************************************************************)
(* Properties                                                              *)
(***************************************************************************)

\* The last compile/acompile call got an answer from the service and ended.
Responded == op \in {"compile", "acompile"} /\ call.pc = "idle" /\ resp # NoResponse

Str(s) == [t |-> "str", s |-> s]

\* The request body as the service decodes it: [ok, v, R], R the resources.
Sent ==
    LET j == json_loads(wire.data)
        ok == j.ok /\ j.v.t = "obj" /\ HasKey(j.v, "resources")
              /\ GetKey(j.v, "resources").t = "arr"
    IN  [ok |-> ok, v |-> j.v, R |-> IF ok THEN GetKey(j.v, "resources").a ELSE <<>>]

HasScheme(content) ==
    StartsWith(content, Chars("http://")) \/ StartsWith(content, Chars("https://"))

\* Error bodies with a logs field, and the text of that field.
KnownLogs ==
    { [body |-> Encode(Chars("{\"logs\": \"boom\"}")), logs |-> Chars("boom")],
      [body |-> Encode(Chars("{\"logs\": \"bo\\\\om\"}")), logs |-> <<"b", "o", "\\", "o", "m">>] }

\* C1 as claimed: every answer whose status is neither 200 nor 201 makes
\* compile/acompile fail with CompilationError and no other failure.
C1_EveryErrorStatusIsCompilationError ==
    (Responded /\ resp.status \notin {200, 201})
        => (result.kind = "raise" /\ result.exc = "CompilationError")

\* C1 as amended: an answer whose status is neither 200 nor 201 and whose
\* body is a JSON object with a string logs field (served, for acompile, as
\* application/json) makes compile/acompile return no value and fail with
\* CompilationError, the message containing the text of the logs field.
C1_ErrorPropagation ==
    \A k \in KnownLogs :
        (/\ Responded
         /\ resp.status \notin {200, 201}
         /\ resp.body = k.body
         /\ client.kind \in AsyncKinds => resp.ctype = "application/json")
        => (/\ result.kind = "raise"
            /\ result.exc = "CompilationError"
            /\ result.value = <<>>
            /\ Contains(result.msg, k.logs))

C1_Witness ==
    /\ Responded
    /\ client.kind = "AsyncLatexCompiler"
    /\ resp.status = 400
    /\ result.exc = "CompilationError"
    /\ Contains(result.msg, Chars("boom"))

\* The base64 text of the local files.
ExpectedBase64(name) ==
    IF name = Chars("img.png") THEN Chars("QUJD/w==")
    ELSE IF name = Chars("httpd.png") THEN Chars("aGk=")
    ELSE Chars("AA==")

\* C2: a pair whose content does not begin with http:// or https:// is
\* transmitted as {path, content} without url; the content is the base64 text
\* of the file when content names a local file, else content unchanged.
C2_NonUrlRecords ==
    posts > 0 =>
        LET sent == Sent
        IN  /\ sent.ok
            /\ Len(sent.R) = Len(args.images) + 1
            /\ \A i \in 1..Len(args.images) :
                ~HasScheme(args.images[i][2]) =>
                LET rec == sent.R[i + 1]
                    c == args.images[i][2]
                IN  /\ rec.t = "obj"
                    /\ Keys(rec) = {Chars("path"), Chars("content")}
                    /\ GetKey(rec, "path") = Str(args.images[i][1])
                    /\ GetKey(rec, "content") =
                           Str(IF c \in FileNames THEN ExpectedBase64(c) ELSE c)

\* C3: a pair whose content begins with http:// or https:// is transmitted
\* as {path, url} with that exact string and the given path, without content,
\* and no local file is read for it.
C3_UrlPassthrough ==
    posts > 0 =>
        LET sent == Sent
        IN  /\ sent.ok
            /\ Len(sent.R) = Len(args.images) + 1
            /\ \A i \in 1..Len(args.images) :
                HasScheme(args.images[i][2]) =>
                LET rec == sent.R[i + 1]
                IN  /\ rec.t = "obj"
                    /\ Keys(rec) = {Chars("path"), Chars("url")}
                    /\ GetKey(rec, "url") = Str(args.images[i][2])
                    /\ GetKey(rec, "path") = Str(args.images[i][1])
                    /\ args.images[i][2] \notin reads

C3_Witness ==
    /\ posts > 0
    /\ client.kind \in AsyncKinds
    /\ \E i \in 1..Len(args.images) :
        /\ args.images[i][2] = Chars("https://x/b")
        /\ Sent.R[i + 1] =
               [t |-> "obj", m |-> <<[k |-> Chars("path"), v |-> Str(Chars("a.png"))],
                                     [k |-> Chars("url"), v |-> Str(Chars("https://x/b"))]>>]

\* C4: the payload posted is {compiler: engine, resources: R}, R holding
\* n + 1 records for n pairs; exactly one record is marked main, it is the
\* first and carries the document unchanged; the others are the pairs in
\* their input order with their paths unchanged.
C4_PayloadShape ==
    posts > 0 =>
        LET sent == Sent
            R == sent.R
        IN  /\ sent.ok
            /\ [i \in 1..Len(sent.v.m) |-> sent.v.m[i].k]
                   = <<Chars("compiler"), Chars("resources")>>
            /\ GetKey(sent.v, "compiler") = Str(args.engine)
            /\ Len(R) = Len(args.images) + 1
            /\ \A i \in 1..Len(R) : R[i].t = "obj"
            /\ Cardinality({i \in 1..Len(R) : HasKey(R[i], "main")}) = 1
            /\ HasKey(R[1], "main")
            /\ GetKey(R[1], "main") = [t |-> "lit", name |-> "true"]
            /\ HasKey(R[1], "content")
            /\ GetKey(R[1], "content") = Str(args.doc)
            /\ \A i \in 1..Len(args.images) :
                 /\ HasKey(R[i + 1], "path")
                 /\ GetKey(R[i + 1], "path") = Str(args.images[i][1])

C4_Witness ==
    /\ posts > 0
    /\ Len(args.images) = MaxImages
    /\ args.images[1][1] # args.images[2][1]
    /\ args.doc = <<"\"", CJK, "\n">>
    /\ Len(Sent.R) = MaxImages + 1
    /\ GetKey(Sent.R[1], "content") = Str(args.doc)

\* C5: on status 200 or 201 the compiler clients return exactly the body of
\* the response and raise nothing; a body beginning with %PDF gives a
\* result beginning with %PDF.
C5_SuccessReturnsBody ==
    (/\ Responded
     /\ resp.status \in {200, 201}
     /\ client.kind \in {"LatexCompiler", "AsyncLatexCompiler"})
    => (/\ result.kind = "return"
        /\ result.value = resp.body
        /\ (Len(resp.body) >= 4 /\ SubSeq(resp.body, 1, 4) = <<37, 80, 68, 70>>)
            => SubSeq(result.value, 1, 4) = <<37, 80, 68, 70>>)

C5_Witness ==
    /\ Responded
    /\ resp.status = 201
    /\ client.kind = "AsyncLatexCompiler"
    /\ result.kind = "return"
    /\ result.value = <<37, 80, 68, 70, 7, 9>>

C7_Construction ==
    client.state # "none" =>
        LET resolved == IF url_arg # <<>> THEN url_arg ELSE environ
        IN  /\ resolved = <<>> =>
                /\ client.state = "failed"
                /\ result.kind = "raise"
                /\ result.exc = "ValueError"
                /\ posts = 0
                /\ wire = NoWire
            /\ resolved # <<>> =>
                /\ client.state = "ready"
                /\ client.api_url = resolved
                /\ op = "init" => result.kind = "return"

C7_Witness ==
    /\ op = "init"
    /\ url_arg = <<>>
    /\ environ = <<>>
    /\ client.state = "failed"
    /\ result.exc = "ValueError"

\* C8: inside the scope of an asynchronous client its session is open, and
\* once the scope is left the session is closed, by exactly one close,
\* whatever the scope body ended with.
C8_ScopedRelease ==
    (client.state = "ready" /\ client.kind \in AsyncKinds) =>
        /\ scope = "in" =>
            /\ ~sessions[client.session].closed
            /\ sessions[client.session].closes = 0
        /\ scope = "exited" =>
            /\ sessions[client.session].closed
            /\ sessions[client.session].closes = 1

C8_Witness ==
    /\ scope = "exited"
    /\ op = "aexit"
    /\ result.exc = "CancelledError"
    /\ sessions[client.session].lib = "aiohttp"
    /\ sessions[client.session].closed

\* C9: compile on an asynchronous client fails at once with
\* NotImplementedError, for every argument list and in every client state,
\* and posts nothing, reads no file and leaves the client, its session and
\* its endpoint as they were.
C9_Misuse ==
    [][op' = "misuse" =>
        /\ result'.kind = "raise"
        /\ result'.exc = "NotImplementedError"
        /\ UNCHANGED <<environ, url_arg, client, sessions, posts, wire, call, scope, reads>>]_vars

C9_Witness ==
    /\ op = "misuse"
    /\ result.exc = "NotImplementedError"
    /\ call.pc = "awaiting"
    /\ args.images # <<>>

\* C10: a client creates exactly one HTTP session, at construction, and
\* every request is posted through it.
C10_OneSession ==
    client.state = "ready" =>
        /\ Len(sessions) = 1
        /\ posts > 0 => wire.session = client.session

====
